---------------------------- MODULE Spec2Model ----------------------------
(***************************************************************************)
(* Model of the marketing A/B test analysis scripts:                       *)
(*   ab_test_bayesian.py, ab_test_frequentist.py, ab_test_business_impact.py*)
(*                                                                         *)
(* Each script is a straight-line program over module-level globals.  The  *)
(* globals of one script are one record (bay, freq, biz) that grows as the *)
(* script executes, its position is bpc / fpc / zpc, and the result files  *)
(* the scripts exchange are the variable files.                            *)
(*                                                                         *)
(* Real numbers are extended rationals <<n, d>> with d >= 0 in lowest      *)
(* terms; <<0,0>> is NaN, <<1,0>> is +inf and <<-1,0>> is -inf, which is   *)
(* what numpy's float64 produces on x/0 and 0/0 (warnings are ignored by   *)
(* the scripts).  Rounding of float64 is modelled where a script computes  *)
(* a value whose rounding error is not hidden by a later rounding: the     *)
(* F64 values below.                                                       *)
(***************************************************************************)
EXTENDS Integers, Sequences, FiniteSets, TLC

VARIABLES data, bay, bpc, freq, fpc, biz, zpc, files

vars == <<data, bay, bpc, freq, fpc, biz, zpc, files>>

----------------------------------------------------------------------------
(* Bounds of the model *)

\* largest group size of the data set
MaxN == 3
\* stands for n_samples (100000 in the source)
NSamples == 2
\* stands for the 1000 iterations of the posterior predictive loop
PredictiveReps == 2
\* largest value of the 'total ads' column sum
MaxAds == 2
\* stands for n_bootstrap (10000 in the source)
BootstrapReps == 1

----------------------------------------------------------------------------
(* Extended rational arithmetic (numpy float64 semantics without rounding) *)

Abs(x) == IF x < 0 THEN -x ELSE x

Sign(x) == IF x < 0 THEN -1 ELSE IF x > 0 THEN 1 ELSE 0

RECURSIVE GCD(_, _)
GCD(a, b) == IF b = 0 THEN a ELSE GCD(b, a % b)

Norm(n, d) ==
    IF d = 0 THEN <<Sign(n), 0>>
    ELSE LET s == IF d < 0 THEN -1 ELSE 1
             g == GCD(Abs(n), Abs(d))
         IN  <<(s * n) \div g, (s * d) \div g>>

NaN == <<0, 0>>
Inf == <<1, 0>>
Zero == <<0, 1>>
One == <<1, 1>>

FInt(i) == <<i, 1>>

IsNaN(x) == x[1] = 0 /\ x[2] = 0
IsInf(x) == x[1] # 0 /\ x[2] = 0
IsFinite(x) == x[2] # 0

FNeg(x) == <<-x[1], x[2]>>

FAdd(x, y) ==
    IF x[2] = 0 /\ y[2] = 0
    THEN (IF x = y THEN x ELSE NaN)
    ELSE Norm(x[1] * y[2] + y[1] * x[2], x[2] * y[2])

FSub(x, y) == FAdd(x, FNeg(y))

FMul(x, y) == Norm(x[1] * y[1], x[2] * y[2])

FRecip(x) ==
    IF IsNaN(x) THEN NaN
    ELSE IF x[1] = 0 THEN Inf
    ELSE IF x[2] = 0 THEN Zero
    ELSE IF x[1] < 0 THEN <<-x[2], -x[1]>>
    ELSE <<x[2], x[1]>>

\* numpy true division: x/0 is +-inf, 0/0 is nan, no exception
FDiv(x, y) == FMul(x, FRecip(y))

FLt(x, y) ==
    IF IsNaN(x) \/ IsNaN(y) THEN FALSE
    ELSE IF x[2] = 0 /\ y[2] = 0 THEN x[1] < y[1]
    ELSE x[1] * y[2] < y[1] * x[2]

FGt(x, y) == FLt(y, x)

FEq(x, y) ==
    IF IsNaN(x) \/ IsNaN(y) THEN FALSE
    ELSE IF x[2] = 0 /\ y[2] = 0 THEN x[1] = y[1]
    ELSE x[1] * y[2] = y[1] * x[2]

FLe(x, y) == FLt(x, y) \/ FEq(x, y)

FGe(x, y) == FLe(y, x)

FAbs(x) == <<Abs(x[1]), x[2]>>

FSign(x) == Sign(x[1])

\* floor of a finite non-negative rational
FFloor(x) == x[1] \div x[2]

RECURSIVE SeqSum(_)
SeqSum(s) == IF s = <<>> THEN Zero ELSE FAdd(Head(s), SeqSum(Tail(s)))

\* the number of i with s[i] true
CountTrue(s) == Cardinality({i \in DOMAIN s : s[i]})

\* np.mean of a boolean array: the fraction of True entries
MeanBool(s) == FDiv(FInt(CountTrue(s)), FInt(Len(s)))

RECURSIVE Insert(_, _)
Insert(x, s) ==
    IF s = <<>> THEN <<x>>
    ELSE IF FLe(x, Head(s)) THEN <<x>> \o s
    ELSE <<Head(s)>> \o Insert(x, Tail(s))

RECURSIVE Sorted(_)
Sorted(s) == IF s = <<>> THEN <<>> ELSE Insert(Head(s), Sorted(Tail(s)))

\* np.percentile(a, q) with the default linear interpolation; q is a rational
\* percentage in [0, 100] and a is non-empty; nan if a holds a nan
Percentile(a, q) ==
    LET srt  == Sorted(a)
        pos  == FMul(FDiv(q, FInt(100)), FInt(Len(a) - 1))
        lo   == FFloor(pos)
        frac == FSub(pos, FInt(lo))
        hi   == IF lo + 1 < Len(a) THEN lo + 1 ELSE lo
    IN  IF \E i \in DOMAIN a : IsNaN(a[i]) THEN NaN
        ELSE FAdd(srt[lo + 1], FMul(FSub(srt[hi + 1], srt[lo + 1]), frac))

----------------------------------------------------------------------------
(* IEEE 754 binary64 (numpy's float64, Python's float) with its rounding, for
   values of magnitude below 4 that are multiples of 2^-60: a sign and the
   magnitude in units of 2^-60, written as three digits of base 2^20.  The
   quotients count/n of the scripts are of this form for n up to 128. *)

Limb == 2^20

MantissaBits == 53

RECURSIVE BitLen(_)
BitLen(n) == IF n = 0 THEN 0 ELSE 1 + BitLen(n \div 2)

MagBitLen(q) ==
    IF q[1] > 0 THEN 40 + BitLen(q[1])
    ELSE IF q[2] > 0 THEN 20 + BitLen(q[2])
    ELSE BitLen(q[3])

MagCarry(q) ==
    LET c3 == q[3] \div Limb
        q2 == q[2] + c3
    IN  <<q[1] + (q2 \div Limb), q2 % Limb, q[3] % Limb>>

MagAdd(x, y) == MagCarry(<<x[1] + y[1], x[2] + y[2], x[3] + y[3]>>)

MagLess(x, y) ==
    \/ x[1] < y[1]
    \/ x[1] = y[1] /\ x[2] < y[2]
    \/ x[1] = y[1] /\ x[2] = y[2] /\ x[3] < y[3]

\* x - y for MagLess(y, x) or x = y
MagSub(x, y) ==
    LET b3 == IF x[3] < y[3] THEN 1 ELSE 0
        b2 == IF x[2] - b3 < y[2] THEN 1 ELSE 0
    IN  <<x[1] - b2 - y[1],
          x[2] - b3 - y[2] + b2 * Limb,
          x[3] - y[3] + b3 * Limb>>

(* round to nearest, ties to even, to MantissaBits significant bits; inexact
   says that the exact magnitude is above q by less than one unit *)
MagRound(q, inexact) ==
    LET drop == MagBitLen(q) - MantissaBits
    IN  IF drop <= 0 THEN q
        ELSE LET u    == 2^drop
                 low  == q[3] % u
                 half == u \div 2
                 odd  == (q[3] \div u) % 2 = 1
                 up   == \/ low > half
                         \/ low = half /\ (inexact \/ odd)
             IN  MagCarry(<<q[1], q[2],
                            q[3] - low + (IF up THEN u ELSE 0)>>)

F64(neg, q) == [neg |-> neg /\ q # <<0, 0, 0>>, q |-> q]

F64Zero == F64(FALSE, <<0, 0, 0>>)

F64One == F64(FALSE, <<Limb, 0, 0>>)

\* the float64 nearest k / n, for integers k >= 0 and n > 0
F64Quotient(k, n) ==
    LET q1 == (k * Limb) \div n
        r1 == (k * Limb) % n
        q2 == (r1 * Limb) \div n
        r2 == (r1 * Limb) % n
        q3 == (r2 * Limb) \div n
        r3 == (r2 * Limb) % n
    IN  F64(FALSE, MagRound(<<q1, q2, q3>>, r3 # 0))

\* the float64 nearest a finite rational
float64(x) ==
    LET v == F64Quotient(Abs(x[1]), x[2]) IN F64(x[1] < 0, v.q)

F64Neg(x) == F64(~x.neg, x.q)

\* x + y, rounded
F64Add(x, y) ==
    IF x.neg = y.neg THEN F64(x.neg, MagRound(MagAdd(x.q, y.q), FALSE))
    ELSE IF MagLess(x.q, y.q)
         THEN F64(y.neg, MagRound(MagSub(y.q, x.q), FALSE))
         ELSE F64(x.neg, MagRound(MagSub(x.q, y.q), FALSE))

\* x - y, rounded
F64Sub(x, y) == F64Add(x, F64Neg(y))

F64Le(x, y) ==
    IF x.neg /\ ~y.neg THEN TRUE
    ELSE IF ~x.neg /\ y.neg THEN FALSE
    ELSE IF x.neg THEN ~MagLess(x.q, y.q)
    ELSE ~MagLess(y.q, x.q)

----------------------------------------------------------------------------
(* The data set marketing_AB.csv, reduced to what the scripts read of it *)

DataSets ==
    [n_ad : 0..MaxN, n_psa : 0..MaxN,
     ad_conversions : 0..MaxN, psa_conversions : 0..MaxN,
     total_ads : 0..MaxAds]

\* a csv holds for each group no more converted rows than rows, and the
\* 'total ads' of an empty ad group sum to 0
CsvData(d) ==
    /\ d.ad_conversions <= d.n_ad
    /\ d.psa_conversions <= d.n_psa
    /\ (d.n_ad = 0 => d.total_ads = 0)

(* Python values that reach a summary dict keep their type: json.dump treats
   int, float and bool differently from numpy's scalar types.  A bool's val
   is One (True) or Zero (False).  A number is val + sgn(rad) * sqrt(|rad|):
   rad is the signed square of the part of the value that is a square root
   (a t statistic, a standardised effect, the half width of an interval) and
   Zero for a rational value. *)
PyInt(i) == [type |-> "int", val |-> FInt(i), rad |-> Zero]
PyFloat(x) == [type |-> "float", val |-> x, rad |-> Zero]
PyBool(b) == [type |-> "bool", val |-> IF b THEN One ELSE Zero, rad |-> Zero]
NpInt(i) == [type |-> "np.int64", val |-> FInt(i), rad |-> Zero]
NpFloat(x) == [type |-> "np.float64", val |-> x, rad |-> Zero]
NpSurd(x, r) == [type |-> "np.float64", val |-> x, rad |-> r]
NpBool(b) ==
    [type |-> "np.bool_", val |-> IF b THEN One ELSE Zero, rad |-> Zero]

\* math.isfinite of a typed value
ValueFinite(v) == IsFinite(v.val) /\ IsFinite(v.rad)

Entry(k, v) == [key |-> k, value |-> v]

NoFile == [present |-> FALSE, complete |-> FALSE, content |-> <<>>]

Files == {"bayesian_results.json", "frequentist_results.json",
          "business_impact_results.json"}

\* float(v) if isinstance(v, (np.integer, np.floating)) else v
Converted(v) ==
    IF v.type \in {"np.int64", "np.float64"}
    THEN [type |-> "float", val |-> v.val, rad |-> v.rad]
    ELSE v

\* what json's encoder accepts; any other object raises TypeError
Serializable(v) == v.type \in {"int", "float", "bool"}

SetMin(S) == CHOOSE x \in S : \A y \in S : x <= y

(* with open(name, 'w') as f: json.dump({k: float(v) if ... else v ...}, f,
   indent=2).  The encoder writes the items in the dict's order (nan and
   +-inf as NaN and Infinity, allow_nan being the default) and raises
   TypeError at the first value it cannot encode, which leaves the items
   before it in the file. *)
JsonDump(summary) ==
    LET conv == [i \in DOMAIN summary |->
                    Entry(summary[i].key, Converted(summary[i].value))]
        bad  == {i \in DOMAIN conv : ~Serializable(conv[i].value)}
    IN  IF bad = {}
        THEN [present |-> TRUE, complete |-> TRUE, content |-> conv]
        ELSE [present |-> TRUE, complete |-> FALSE,
              content |-> SubSeq(conv, 1, SetMin(bad) - 1)]

\* json.dump raises TypeError
DumpRaises(summary) ==
    \E i \in DOMAIN summary : ~Serializable(Converted(summary[i].value))

----------------------------------------------------------------------------
(* ab_test_bayesian.py *)

\* variant: every row of the group counted as a failure
non_conversions_all_rows(n, conversions) == n

\* lines 41-47: conversions and non-conversions of a group
non_conversions(n, conversions) == n - conversions

\* line 54-55: np.int64 / int, numpy division
conversion_rate(conversions, n) == FDiv(FInt(conversions), FInt(n))

alpha_prior == 1
beta_prior == 1

\* variant: the prior's pseudo-count left out
alpha_post_without_prior(prior, conversions) == conversions

\* lines 77, 80: alpha + successes
alpha_post(prior, conversions) == prior + conversions

\* lines 78, 81: beta + failures
beta_post(prior, nonconv) == prior + nonconv

\* lines 92-93
post_mean(a, b) == FDiv(FInt(a), FInt(a + b))

BLoad ==
    /\ bpc = "load"
    /\ bay' = [ad_conversions |-> data.ad_conversions,
               ad_non_conversions |->
                   non_conversions(data.n_ad, data.ad_conversions),
               n_ad |-> data.n_ad,
               psa_conversions |-> data.psa_conversions,
               psa_non_conversions |->
                   non_conversions(data.n_psa, data.psa_conversions),
               n_psa |-> data.n_psa,
               cr_ad |-> conversion_rate(data.ad_conversions, data.n_ad),
               cr_psa |-> conversion_rate(data.psa_conversions, data.n_psa)]
    /\ bpc' = "posterior"
    /\ UNCHANGED <<data, freq, fpc, biz, zpc, files>>

BPosterior ==
    /\ bpc = "posterior"
    /\ LET a_ad  == alpha_post(alpha_prior, bay.ad_conversions)
           b_ad  == beta_post(beta_prior, bay.ad_non_conversions)
           a_psa == alpha_post(alpha_prior, bay.psa_conversions)
           b_psa == beta_post(beta_prior, bay.psa_non_conversions)
       IN  bay' = [alpha_prior_ad |-> alpha_prior,
                   beta_prior_ad |-> beta_prior,
                   alpha_prior_psa |-> alpha_prior,
                   beta_prior_psa |-> beta_prior,
                   alpha_post_ad |-> a_ad, beta_post_ad |-> b_ad,
                   alpha_post_psa |-> a_psa, beta_post_psa |-> b_psa,
                   post_mean_ad |-> post_mean(a_ad, b_ad),
                   post_mean_psa |-> post_mean(a_psa, b_psa)] @@ bay
    /\ bpc' = "sample"
    /\ UNCHANGED <<data, freq, fpc, biz, zpc, files>>

\* np.random.beta(a, b, n_samples): n_samples draws in (0, 1)
BetaDraws == {<<1, 3>>, <<2, 3>>}

SampleSets == [1..NSamples -> BetaDraws]

\* lines 110-114
BSample ==
    /\ bpc = "sample"
    /\ \E sa \in SampleSets, sp \in SampleSets :
         bay' = [n_samples |-> NSamples,
                 posterior_ad_samples |-> sa,
                 posterior_psa_samples |-> sp,
                 posterior_diff_samples |->
                     [i \in 1..NSamples |-> FSub(sa[i], sp[i])]] @@ bay
    /\ bpc' = "credible"
    /\ UNCHANGED <<data, freq, fpc, biz, zpc, files>>

\* variant: a credible level of 90%
ci_level_90 == <<9, 10>>

\* line 134
ci_level == <<19, 20>>

\* lines 138-147: the percentile taken for the lower and the upper bound
ci_lower_q(level) == FMul(FInt(100), FDiv(FSub(One, level), FInt(2)))
ci_upper_q(level) ==
    FMul(FInt(100), FSub(One, FDiv(FSub(One, level), FInt(2))))

\* lines 134-147
BCredible ==
    /\ bpc = "credible"
    /\ bay' = [ci_level |-> ci_level,
               alpha_ci |-> FSub(One, ci_level),
               ad_ci_lower |->
                   Percentile(bay.posterior_ad_samples, ci_lower_q(ci_level)),
               ad_ci_upper |->
                   Percentile(bay.posterior_ad_samples, ci_upper_q(ci_level)),
               psa_ci_lower |->
                   Percentile(bay.posterior_psa_samples, ci_lower_q(ci_level)),
               psa_ci_upper |->
                   Percentile(bay.posterior_psa_samples, ci_upper_q(ci_level)),
               diff_ci_lower |->
                   Percentile(bay.posterior_diff_samples, ci_lower_q(ci_level)),
               diff_ci_upper |->
                   Percentile(bay.posterior_diff_samples, ci_upper_q(ci_level))]
              @@ bay
    /\ bpc' = "superiority"
    /\ UNCHANGED <<data, freq, fpc, biz, zpc, files>>

\* line 177: np.mean(posterior_ad_samples > posterior_psa_samples)
prob_better(xs, ys) == MeanBool([i \in DOMAIN xs |-> FGt(xs[i], ys[i])])

\* line 179
prob_equal(pa, pp) == F64Sub(F64Sub(F64One, float64(pa)), float64(pp))

\* line 187
min_lift == <<1, 100>>

\* variant: the size of the relative lift compared, whatever its direction
prob_meaningful_lift_magnitude(sa, sp, lift) ==
    MeanBool([i \in DOMAIN sa |->
                 FGt(FAbs(FDiv(FSub(sa[i], sp[i]), sp[i])), lift)])

\* line 188
prob_meaningful_lift(sa, sp, lift) ==
    MeanBool([i \in DOMAIN sa |->
                 FGt(FDiv(FSub(sa[i], sp[i]), sp[i]), lift)])

\* lines 177-190
BSuperiority ==
    /\ bpc = "superiority"
    /\ LET pa == prob_better(bay.posterior_ad_samples,
                             bay.posterior_psa_samples)
           pp == prob_better(bay.posterior_psa_samples,
                             bay.posterior_ad_samples)
       IN  bay' = [prob_ad_better |-> pa,
                   prob_psa_better |-> pp,
                   prob_equal |-> prob_equal(pa, pp),
                   min_lift |-> min_lift,
                   prob_meaningful_lift |->
                       prob_meaningful_lift(bay.posterior_ad_samples,
                                            bay.posterior_psa_samples,
                                            min_lift)] @@ bay
    /\ bpc' = "interpret"
    /\ UNCHANGED <<data, freq, fpc, biz, zpc, files>>

\* variant: the thresholds compared with >=
interpretation_inclusive(p) ==
    IF FGe(p, <<95, 100>>) THEN "Very Strong Evidence"
    ELSE IF FGe(p, <<90, 100>>) THEN "Strong Evidence"
    ELSE IF FGe(p, <<75, 100>>) THEN "Moderate Evidence"
    ELSE IF FGe(p, <<50, 100>>) THEN "Weak Evidence"
    ELSE "No Evidence"

\* lines 193-207
interpretation(p) ==
    IF FGt(p, <<95, 100>>) THEN "Very Strong Evidence"
    ELSE IF FGt(p, <<90, 100>>) THEN "Strong Evidence"
    ELSE IF FGt(p, <<75, 100>>) THEN "Moderate Evidence"
    ELSE IF FGt(p, <<50, 100>>) THEN "Weak Evidence"
    ELSE "No Evidence"

BInterpret ==
    /\ bpc = "interpret"
    /\ bay' = [interpretation |-> interpretation(bay.prob_ad_better)] @@ bay
    /\ bpc' = "expected"
    /\ UNCHANGED <<data, freq, fpc, biz, zpc, files>>

\* line 221
value_per_conversion == 100

\* line 224
expected_incremental_conversions(pm_ad, pm_psa, n) ==
    FMul(FSub(pm_ad, pm_psa), FInt(n))

\* line 235
revenue_samples(sa, sp, n, value) ==
    [i \in DOMAIN sa |-> FMul(FMul(FSub(sa[i], sp[i]), FInt(n)), FInt(value))]

\* lines 236-237: the percentiles are literals here
revenue_lower_q == <<5, 2>>
revenue_upper_q == <<195, 2>>

\* line 253
future_n == 10000

\* lines 221-237, and lines 253-254 that set up the predictive loop
BExpected ==
    /\ bpc = "expected"
    /\ LET eic == expected_incremental_conversions(
                      bay.post_mean_ad, bay.post_mean_psa, bay.n_ad)
           rev == revenue_samples(bay.posterior_ad_samples,
                                  bay.posterior_psa_samples,
                                  bay.n_ad, value_per_conversion)
       IN  bay' = [value_per_conversion |-> value_per_conversion,
                   expected_incremental_conversions |-> eic,
                   expected_incremental_revenue |->
                       FMul(eic, FInt(value_per_conversion)),
                   revenue_samples |-> rev,
                   revenue_ci_lower |-> Percentile(rev, revenue_lower_q),
                   revenue_ci_upper |-> Percentile(rev, revenue_upper_q),
                   future_n |-> future_n,
                   posterior_predictive_samples |-> <<>>] @@ bay
    /\ bpc' = "predictive"
    /\ UNCHANGED <<data, freq, fpc, biz, zpc, files>>

(* np.random.binomial(n, p) with 0 < p < 1: a count in 0..n, a Python int;
   of these counts the model keeps 0 and 1 *)
BinomialDraws(n) == {k \in {0, 1} : k <= n}

(* lines 256-267, one iteration of the loop.  future_ad, future_psa and
   future_n are Python ints, so the rates are Python floats and the lift's
   division raises ZeroDivisionError when future_psa is 0. *)
BPredictIter ==
    /\ bpc = "predictive"
    /\ Len(bay.posterior_predictive_samples) < PredictiveReps
    /\ \E p_ad \in BetaDraws, p_psa \in BetaDraws,
          future_ad \in BinomialDraws(bay.future_n),
          future_psa \in BinomialDraws(bay.future_n) :
         LET ad_rate  == FDiv(FInt(future_ad), FInt(bay.future_n))
             psa_rate == FDiv(FInt(future_psa), FInt(bay.future_n))
         IN  IF psa_rate = Zero
             THEN /\ bpc' = "ZeroDivisionError"
                  /\ bay' = bay
             ELSE /\ bpc' = "predictive"
                  /\ bay' = [bay EXCEPT !.posterior_predictive_samples =
                                Append(@, [ad_rate |-> ad_rate,
                                           psa_rate |-> psa_rate,
                                           lift |-> FDiv(FSub(ad_rate, psa_rate),
                                                         psa_rate)])]
    /\ UNCHANGED <<data, freq, fpc, biz, zpc, files>>

\* line 269: the loop has run its iterations
BPredictDone ==
    /\ bpc = "predictive"
    /\ Len(bay.posterior_predictive_samples) = PredictiveReps
    /\ bpc' = "summary"
    /\ bay' = bay
    /\ UNCHANGED <<data, freq, fpc, biz, zpc, files>>

\* lines 285-303
BayesSummary(b) ==
    << Entry("ad_group_size", PyInt(b.n_ad)),
       Entry("psa_group_size", PyInt(b.n_psa)),
       Entry("ad_conversions", NpInt(b.ad_conversions)),
       Entry("psa_conversions", NpInt(b.psa_conversions)),
       Entry("ad_conversion_rate", NpFloat(b.cr_ad)),
       Entry("psa_conversion_rate", NpFloat(b.cr_psa)),
       Entry("posterior_mean_ad", NpFloat(b.post_mean_ad)),
       Entry("posterior_mean_psa", NpFloat(b.post_mean_psa)),
       Entry("expected_lift",
             NpFloat(FDiv(FSub(b.post_mean_ad, b.post_mean_psa),
                          b.post_mean_psa))),
       Entry("prob_ad_better", NpFloat(b.prob_ad_better)),
       Entry("prob_meaningful_lift", NpFloat(b.prob_meaningful_lift)),
       Entry("credible_interval_lower", NpFloat(b.diff_ci_lower)),
       Entry("credible_interval_upper", NpFloat(b.diff_ci_upper)),
       Entry("expected_incremental_conversions",
             NpFloat(b.expected_incremental_conversions)),
       Entry("expected_incremental_revenue",
             NpFloat(b.expected_incremental_revenue)),
       Entry("revenue_ci_lower", NpFloat(b.revenue_ci_lower)),
       Entry("revenue_ci_upper", NpFloat(b.revenue_ci_upper)) >>

\* lines 285-316: build the summary and save it
BSave ==
    /\ bpc = "summary"
    /\ LET summary == BayesSummary(bay)
       IN  /\ bay' = [summary |-> summary] @@ bay
           /\ files' = [files EXCEPT !["bayesian_results.json"] =
                            JsonDump(summary)]
           /\ bpc' = IF DumpRaises(summary) THEN "TypeError" ELSE "done"
    /\ UNCHANGED <<data, freq, fpc, biz, zpc>>

BayesNext ==
    \/ BLoad \/ BPosterior \/ BSample \/ BCredible \/ BSuperiority
    \/ BInterpret \/ BExpected \/ BPredictIter \/ BPredictDone \/ BSave

----------------------------------------------------------------------------
(* ab_test_frequentist.py.  A group's 'converted' column is an array of n
   values of which k are 1; only n and k matter to what the script computes. *)

\* lines 46-47: ndarray.mean(), nan for an empty array
array_mean(k, n) == FDiv(FInt(k), FInt(n))

\* lines 78-79: np.var(x, ddof=1) of a 0/1 array, nan when n <= 1
sample_var(k, n) == FDiv(FInt(k * (n - k)), FInt(n * (n - 1)))

\* lines 73-74, squared: (np.std(x, ddof=1) / np.sqrt(n)) ** 2
se_squared(var, n) == FDiv(var, FInt(n))

\* line 80
df_welch(se2_ad, se2_psa, n_ad, n_psa) ==
    FDiv(FMul(FAdd(se2_ad, se2_psa), FAdd(se2_ad, se2_psa)),
         FAdd(FDiv(FMul(se2_ad, se2_ad), FInt(n_ad - 1)),
              FDiv(FMul(se2_psa, se2_psa), FInt(n_psa - 1))))

\* the signed square of x / sqrt(y2)
SignedSquareRatio(x, y2) == FDiv(FMul(x, FAbs(x)), y2)

(* stats.t.ppf(0.975, df) squared, rounded: nan for a nan df, and a value
   that falls from 161 (df = 1) towards 3.84 as df grows *)
TCritSquared(df) ==
    IF IsNaN(df) \/ FLe(df, Zero) THEN NaN
    ELSE IF FLt(df, FInt(2)) THEN FInt(161)
    ELSE IF FLt(df, FInt(3)) THEN FInt(19)
    ELSE IF FLt(df, FInt(4)) THEN FInt(10)
    ELSE IF FLt(df, FInt(5)) THEN FInt(8)
    ELSE FInt(4)

PValueGrid == {<<1, 100>>, <<1, 20>>, <<1, 2>>}

(* stats.ttest_ind(..., equal_var=False): the statistic is the difference of
   the means over se_diff; the p-value is nan for a nan statistic, 0 for an
   infinite one, 1 for 0, and otherwise some value strictly between *)
TTestPValues(t_sq) ==
    IF IsNaN(t_sq) THEN {NaN}
    ELSE IF IsInf(t_sq) THEN {Zero}
    ELSE IF t_sq = Zero THEN {One}
    ELSE PValueGrid

\* line 94
alpha == <<1, 20>>

\* lines 95-100
significance(p, a) ==
    IF FLt(p, a) THEN "Statistically Significant"
    ELSE "Not Statistically Significant"

\* lines 35-49
FLoad ==
    /\ fpc = "load"
    /\ freq' = [k_ad |-> data.ad_conversions,
                k_psa |-> data.psa_conversions,
                cr_ad |-> array_mean(data.ad_conversions, data.n_ad),
                cr_psa |-> array_mean(data.psa_conversions, data.n_psa),
                n_ad |-> data.n_ad,
                n_psa |-> data.n_psa]
    /\ fpc' = "ttest"
    /\ UNCHANGED <<data, bay, bpc, biz, zpc, files>>

\* lines 70-100
FTTest ==
    /\ fpc = "ttest"
    /\ LET var_ad  == sample_var(freq.k_ad, freq.n_ad)
           var_psa == sample_var(freq.k_psa, freq.n_psa)
           se2_ad  == se_squared(var_ad, freq.n_ad)
           se2_psa == se_squared(var_psa, freq.n_psa)
           se2     == FAdd(se2_ad, se2_psa)
           diff    == FSub(freq.cr_ad, freq.cr_psa)
           t_sq    == SignedSquareRatio(diff, se2)
           df      == df_welch(se2_ad, se2_psa, freq.n_ad, freq.n_psa)
           half2   == FMul(TCritSquared(df), se2)
       IN  \E p \in TTestPValues(t_sq) :
             freq' = [t_stat |-> NpSurd(Zero, t_sq),
                      p_value |-> p,
                      se_ad_sq |-> se2_ad,
                      se_psa_sq |-> se2_psa,
                      se_diff_sq |-> se2,
                      var_ad |-> var_ad,
                      var_psa |-> var_psa,
                      df_welch |-> df,
                      ci_95_lower |-> NpSurd(diff, FNeg(half2)),
                      ci_95_upper |-> NpSurd(diff, half2),
                      alpha |-> alpha,
                      significance |-> significance(p, alpha)] @@ freq
    /\ fpc' = "chi2"
    /\ UNCHANGED <<data, bay, bpc, biz, zpc, files>>

(* line 122: pd.crosstab(df['test group'], df['converted']): one row for each
   group that has rows, one column for each value of converted that occurs *)
contingency_table(k_ad, n_ad, k_psa, n_psa) ==
    LET rows == (IF n_ad > 0 THEN <<"ad">> ELSE <<>>)
                \o (IF n_psa > 0 THEN <<"psa">> ELSE <<>>)
        cols == (IF (n_ad - k_ad) + (n_psa - k_psa) > 0
                 THEN <<FALSE>> ELSE <<>>)
                \o (IF k_ad + k_psa > 0 THEN <<TRUE>> ELSE <<>>)
        cell(g, c) ==
            IF g = "ad" THEN (IF c THEN k_ad ELSE n_ad - k_ad)
            ELSE (IF c THEN k_psa ELSE n_psa - k_psa)
    IN  [i \in DOMAIN rows |-> [j \in DOMAIN cols |-> cell(rows[i], cols[j])]]

TableRows(t) == Len(t)
TableCols(t) == IF t = <<>> THEN 0 ELSE Len(t[1])

RECURSIVE IntSum(_)
IntSum(s) == IF s = <<>> THEN 0 ELSE Head(s) + IntSum(Tail(s))

TableTotal(t) == IntSum([i \in DOMAIN t |-> IntSum(t[i])])

\* scipy's expected_freq: row total * column total / grand total
expected_freq(t) ==
    [i \in DOMAIN t |->
        [j \in DOMAIN t[i] |->
            FDiv(FInt(IntSum(t[i]) * IntSum([r \in DOMAIN t |-> t[r][j]])),
                 FInt(TableTotal(t)))]]

\* chi2_contingency's degrees of freedom
chi2_dof(t) == (TableRows(t) - 1) * (TableCols(t) - 1)

\* a quarter is the square of Yates' 0.5
FMin(x, y) == IF FLt(y, x) THEN y ELSE x

\* variant: chi2_contingency(observed, correction=False)
chi2_statistic_uncorrected(t) ==
    LET e == expected_freq(t)
        term(i, j) ==
            FDiv(FMul(FSub(FInt(t[i][j]), e[i][j]),
                      FSub(FInt(t[i][j]), e[i][j])),
                 e[i][j])
    IN  IF chi2_dof(t) = 0 THEN Zero
        ELSE SeqSum([i \in DOMAIN t |->
                        SeqSum([j \in DOMAIN t[i] |-> term(i, j)])])

(* chi2_contingency(observed) with its default correction=True: for dof = 1
   each observed cell is moved towards its expected value by
   min(0.5, |expected - observed|) before the statistic is summed; the
   statistic is 0.0 for dof = 0 *)
chi2_statistic(t) ==
    LET e == expected_freq(t)
        adj(i, j) ==
            LET d == FSub(e[i][j], FInt(t[i][j]))
            IN  IF chi2_dof(t) = 1
                THEN FAdd(FInt(t[i][j]),
                          FMul(FMin(<<1, 2>>, FAbs(d)), FInt(FSign(d))))
                ELSE FInt(t[i][j])
        term(i, j) ==
            FDiv(FMul(FSub(adj(i, j), e[i][j]), FSub(adj(i, j), e[i][j])),
                 e[i][j])
    IN  IF chi2_dof(t) = 0 THEN Zero
        ELSE SeqSum([i \in DOMAIN t |->
                        SeqSum([j \in DOMAIN t[i] |-> term(i, j)])])

Chi2PValueGrid == {<<1, 100>>, <<1, 2>>}

\* the chi-square survival function: 1 at 0, below 1 above it
Chi2PValues(chi2) == IF chi2 = Zero THEN {One} ELSE Chi2PValueGrid

(* lines 122-140.  chi2_contingency raises ValueError for a table without
   cells (no row in the data set). *)
FChi2 ==
    /\ fpc = "chi2"
    /\ LET t == contingency_table(freq.k_ad, freq.n_ad, freq.k_psa, freq.n_psa)
       IN  IF TableRows(t) * TableCols(t) = 0
           THEN /\ fpc' = "ValueError"
                /\ freq' = [contingency_table |-> t] @@ freq
           ELSE /\ fpc' = "effect"
                /\ \E p \in Chi2PValues(chi2_statistic(t)) :
                     freq' = [contingency_table |-> t,
                              chi2 |-> chi2_statistic(t),
                              p_chi2 |-> p,
                              dof |-> chi2_dof(t),
                              expected |-> expected_freq(t)] @@ freq
    /\ UNCHANGED <<data, bay, bpc, biz, zpc, files>>

\* np.arcsin(np.sqrt(p)) in thousandths of a radian, by the value of p
AsinSqrtMilli ==
    (<<0, 1>> :> 0) @@ (<<1, 1>> :> 1571) @@ (<<1, 2>> :> 785)
    @@ (<<1, 3>> :> 615) @@ (<<2, 3>> :> 955) @@ (<<1, 4>> :> 524)
    @@ (<<3, 4>> :> 1047) @@ (<<1, 5>> :> 464) @@ (<<2, 5>> :> 685)
    @@ (<<3, 5>> :> 886) @@ (<<4, 5>> :> 1107) @@ (<<1, 6>> :> 421)
    @@ (<<5, 6>> :> 1150)

\* variant: the two proportions exchanged
cohens_h_exchanged(p1, p2) ==
    IF IsNaN(p1) \/ IsNaN(p2) THEN NaN
    ELSE Norm(2 * (AsinSqrtMilli[p2] - AsinSqrtMilli[p1]), 1000)

\* lines 151-154
cohens_h(p1, p2) ==
    IF IsNaN(p1) \/ IsNaN(p2) THEN NaN
    ELSE Norm(2 * (AsinSqrtMilli[p1] - AsinSqrtMilli[p2]), 1000)

\* line 157, squared: nan when a variance is nan
pooled_std_sq(n_ad, var_ad, n_psa, var_psa) ==
    FDiv(FAdd(FMul(FInt(n_ad - 1), var_ad), FMul(FInt(n_psa - 1), var_psa)),
         FInt(n_ad + n_psa - 2))

\* variant: the division made without the test of pooled_std
cohens_d_unguarded(cr_ad, cr_psa, pooled_sq) ==
    NpSurd(Zero, SignedSquareRatio(FSub(cr_ad, cr_psa), pooled_sq))

\* line 158: (cr_ad - cr_psa) / pooled_std if pooled_std > 0 else 0
cohens_d(cr_ad, cr_psa, pooled_sq) ==
    IF FGt(pooled_sq, Zero)
    THEN NpSurd(Zero, SignedSquareRatio(FSub(cr_ad, cr_psa), pooled_sq))
    ELSE PyInt(0)

\* variant: the thresholds applied to h itself
interpret_effect_size_h_signed(h) ==
    IF FLt(h, <<2, 10>>) THEN "Negligible"
    ELSE IF FLt(h, <<5, 10>>) THEN "Small"
    ELSE IF FLt(h, <<8, 10>>) THEN "Medium"
    ELSE "Large"

\* lines 168-178
interpret_effect_size_h(h) ==
    LET abs_h == FAbs(h)
    IN  IF FLt(abs_h, <<2, 10>>) THEN "Negligible"
        ELSE IF FLt(abs_h, <<5, 10>>) THEN "Small"
        ELSE IF FLt(abs_h, <<8, 10>>) THEN "Medium"
        ELSE "Large"

\* lines 157-161
FEffect ==
    /\ fpc = "effect"
    /\ LET pooled == pooled_std_sq(freq.n_ad, freq.var_ad,
                                   freq.n_psa, freq.var_psa)
       IN  freq' = [pooled_std_sq |-> pooled,
                    cohens_d |-> cohens_d(freq.cr_ad, freq.cr_psa, pooled),
                    cohens_h_value |-> cohens_h(freq.cr_ad, freq.cr_psa)]
                   @@ freq
    /\ fpc' = "effect_interp"
    /\ UNCHANGED <<data, bay, bpc, biz, zpc, files>>

\* line 180
FEffectInterpret ==
    /\ fpc = "effect_interp"
    /\ freq' = [effect_interpretation |->
                    interpret_effect_size_h(freq.cohens_h_value),
                differences |-> <<>>] @@ freq
    /\ fpc' = "bootstrap"
    /\ UNCHANGED <<data, bay, bpc, biz, zpc, files>>

(* lines 199-200: the mean of n draws with replacement from an array of n
   values of which k are 1; nan for an empty array *)
ResampleMeans(k, n) ==
    IF n = 0 THEN {NaN}
    ELSE IF k = 0 THEN {Zero}
    ELSE IF k = n THEN {One}
    ELSE {Norm(j, n) : j \in 0..n}

\* lines 197-203, one iteration of bootstrap_ci's loop
FBootstrapIter ==
    /\ fpc = "bootstrap"
    /\ Len(freq.differences) < BootstrapReps
    /\ \E m1 \in ResampleMeans(freq.k_ad, freq.n_ad),
          m2 \in ResampleMeans(freq.k_psa, freq.n_psa) :
         freq' = [freq EXCEPT !.differences = Append(@, FSub(m1, m2))]
    /\ fpc' = "bootstrap"
    /\ UNCHANGED <<data, bay, bpc, biz, zpc, files>>

\* lines 205-215: the percentiles of the recorded differences
FBootstrapDone ==
    /\ fpc = "bootstrap"
    /\ Len(freq.differences) = BootstrapReps
    /\ freq' = [bootstrap_lower |->
                    Percentile(freq.differences, ci_lower_q(ci_level)),
                bootstrap_upper |->
                    Percentile(freq.differences, ci_upper_q(ci_level)),
                bootstrap_diffs |-> freq.differences] @@ freq
    /\ fpc' = "power"
    /\ UNCHANGED <<data, bay, bpc, biz, zpc, files>>

PowerGrid == {<<1, 2>>, <<9, 10>>}

RequiredNGrid == {<<3, 2>>, <<16, 1>>}

\* np.ceil of a finite rational
FCeil(x) == -((-x[1]) \div x[2])

\* variant: the achieved power computed for groups of equal size
power_ratio_balanced(n_psa, n_ad) == One

\* line 239: ratio=n_psa/n_ad, the quotient of two Python ints
power_ratio(n_psa, n_ad) == FDiv(FInt(n_psa), FInt(n_ad))

\* lines 236-242: the arguments of power_analysis.power
PowerCall(f) ==
    [effect_size |-> f.cohens_d,
     nobs1 |-> f.n_ad,
     ratio |-> power_ratio(f.n_psa, f.n_ad),
     alpha |-> <<1, 20>>,
     alternative |-> "two-sided"]

\* lines 251-257: the arguments of power_analysis.solve_power
SolveCall(f) ==
    [effect_size |-> f.cohens_d,
     power |-> <<4, 5>>,
     ratio |-> One,
     alpha |-> <<1, 20>>,
     alternative |-> "two-sided"]

(* lines 232-260.  n_psa/n_ad divides two Python ints and raises
   ZeroDivisionError for an empty ad group; TTestIndPower.solve_power cannot
   solve for the sample size of an effect size of 0 and raises ValueError;
   for an effect size other than 0 the two calls return a power in (0, 1]
   and a positive sample size. *)
FPower ==
    /\ fpc = "power"
    /\ IF freq.n_ad = 0
       THEN fpc' = "ZeroDivisionError" /\ freq' = freq
       ELSE IF freq.cohens_d.rad = Zero
       THEN /\ fpc' = "ValueError"
            /\ freq' = [observed_effect |-> FSub(freq.cr_ad, freq.cr_psa),
                        power_call |-> PowerCall(freq),
                        solve_call |-> SolveCall(freq)] @@ freq
       ELSE /\ fpc' = "summary"
            /\ \E pw \in PowerGrid, rn \in RequiredNGrid :
                 freq' = [observed_effect |-> FSub(freq.cr_ad, freq.cr_psa),
                          power_call |-> PowerCall(freq),
                          achieved_power |-> pw,
                          solve_call |-> SolveCall(freq),
                          required_n |-> rn] @@ freq
    /\ UNCHANGED <<data, bay, bpc, biz, zpc, files>>

\* variant: p_value <= 0.05
is_significant_inclusive(p) == NpBool(FLe(p, <<5, 100>>))

\* line 294: p_value < 0.05, a numpy bool as p_value is a numpy float
is_significant(p) == NpBool(FLt(p, <<5, 100>>))

\* lines 275-295
FreqSummary(f) ==
    << Entry("ad_group_size", PyInt(f.n_ad)),
       Entry("psa_group_size", PyInt(f.n_psa)),
       Entry("ad_conversion_rate", NpFloat(f.cr_ad)),
       Entry("psa_conversion_rate", NpFloat(f.cr_psa)),
       Entry("absolute_lift", NpFloat(FSub(f.cr_ad, f.cr_psa))),
       Entry("relative_lift",
             NpFloat(FDiv(FSub(f.cr_ad, f.cr_psa), f.cr_psa))),
       Entry("t_statistic", f.t_stat),
       Entry("p_value", NpFloat(f.p_value)),
       Entry("chi2_statistic", NpFloat(f.chi2)),
       Entry("chi2_p_value", NpFloat(f.p_chi2)),
       Entry("cohens_h", NpFloat(f.cohens_h_value)),
       Entry("cohens_d", f.cohens_d),
       Entry("ci_95_lower", f.ci_95_lower),
       Entry("ci_95_upper", f.ci_95_upper),
       Entry("bootstrap_ci_lower", NpFloat(f.bootstrap_lower)),
       Entry("bootstrap_ci_upper", NpFloat(f.bootstrap_upper)),
       Entry("statistical_power", NpFloat(f.achieved_power)),
       Entry("required_sample_size", PyInt(FCeil(f.required_n))),
       Entry("is_significant", is_significant(f.p_value)) >>

\* variant: the summary saved under the name of the Bayesian results
FSaveToBayesianFile ==
    /\ fpc = "summary"
    /\ LET summary == FreqSummary(freq)
       IN  /\ freq' = [summary |-> summary] @@ freq
           /\ files' = [files EXCEPT !["bayesian_results.json"] =
                            JsonDump(summary)]
           /\ fpc' = IF DumpRaises(summary) THEN "TypeError" ELSE "done"
    /\ UNCHANGED <<data, bay, bpc, biz, zpc>>

\* lines 275-308: build the summary and save it
FSave ==
    /\ fpc = "summary"
    /\ LET summary == FreqSummary(freq)
       IN  /\ freq' = [summary |-> summary] @@ freq
           /\ files' = [files EXCEPT !["frequentist_results.json"] =
                            JsonDump(summary)]
           /\ fpc' = IF DumpRaises(summary) THEN "TypeError" ELSE "done"
    /\ UNCHANGED <<data, bay, bpc, biz, zpc>>

FreqNext ==
    \/ FLoad \/ FTTest \/ FChi2 \/ FEffect \/ FEffectInterpret
    \/ FBootstrapIter \/ FBootstrapDone \/ FPower \/ FSave

----------------------------------------------------------------------------
(* ab_test_business_impact.py.  Sections 7 and 8 of the script (scaling
   projections, sensitivity analysis) only print and are not modelled. *)

\* json.load(f): json.JSONDecodeError for a file whose text was cut short
JsonLoadRaises(file) == file.present /\ ~file.complete

(* the text json's encoder writes for a value it accepts: true / false for a
   bool, the digits for an int, float.__repr__ for a float, and NaN,
   Infinity, -Infinity for the floats that are not finite *)
JsonText(v) ==
    IF v.type = "bool"
    THEN [token |-> IF v.val = One THEN "true" ELSE "false"]
    ELSE IF v.type = "int" THEN [token |-> "integer", val |-> v.val]
    ELSE IF IsNaN(v.val) \/ IsNaN(v.rad) THEN [token |-> "NaN"]
    ELSE IF ~ValueFinite(v)
    THEN [token |-> IF FSign(IF IsInf(v.val) THEN v.val ELSE v.rad) > 0
                    THEN "Infinity" ELSE "-Infinity"]
    ELSE [token |-> "float", val |-> v.val, rad |-> v.rad]

\* the Python value json's decoder makes of a token
JsonParse(t) ==
    IF t.token \in {"true", "false"} THEN PyBool(t.token = "true")
    ELSE IF t.token = "integer"
    THEN [type |-> "int", val |-> t.val, rad |-> Zero]
    ELSE IF t.token = "NaN" THEN PyFloat(NaN)
    ELSE IF t.token = "Infinity" THEN PyFloat(Inf)
    ELSE IF t.token = "-Infinity" THEN PyFloat(FNeg(Inf))
    ELSE [type |-> "float", val |-> t.val, rad |-> t.rad]

\* json.load(f) of a file that was written to its end: the items of the dict
JsonLoad(file) ==
    [i \in DOMAIN file.content |->
        Entry(file.content[i].key, JsonParse(JsonText(file.content[i].value)))]

\* dict.get(key, default) on a loaded results dict
DictGet(d, key, default) ==
    IF \E i \in DOMAIN d : d[i].key = key
    THEN d[CHOOSE i \in DOMAIN d : d[i].key = key].value
    ELSE default

\* lines 36-41: None when the file does not exist
ZLoadFrequentist ==
    /\ zpc = "load"
    /\ LET file == files["frequentist_results.json"]
       IN  IF JsonLoadRaises(file)
           THEN zpc' = "JSONDecodeError" /\ biz' = biz
           ELSE /\ zpc' = "load_bayesian"
                /\ biz' = [frequentist_results |->
                              [loaded |-> file.present,
                               items |-> JsonLoad(file)]]
    /\ UNCHANGED <<data, bay, bpc, freq, fpc, files>>

\* line 53
cost_per_ad_impression == <<1, 100>>

\* lines 43-62
ZLoadBayesian ==
    /\ zpc = "load_bayesian"
    /\ LET file == files["bayesian_results.json"]
       IN  IF JsonLoadRaises(file)
           THEN zpc' = "JSONDecodeError" /\ biz' = biz
           ELSE /\ zpc' = "conversion"
                /\ biz' = [bayesian_results |->
                              [loaded |-> file.present,
                               items |-> JsonLoad(file)],
                           value_per_conversion |-> value_per_conversion,
                           cost_per_ad_impression |-> cost_per_ad_impression,
                           ad_group_total_ads |-> data.total_ads] @@ biz
    /\ UNCHANGED <<data, bay, bpc, freq, fpc, files>>

\* line 94
incremental_conversions(k_ad, n_ad, cr_psa) ==
    FSub(FInt(k_ad), FMul(FInt(n_ad), cr_psa))

\* lines 81-95
ZConversion ==
    /\ zpc = "conversion"
    /\ LET cr_ad  == conversion_rate(data.ad_conversions, data.n_ad)
           cr_psa == conversion_rate(data.psa_conversions, data.n_psa)
       IN  biz' = [n_ad |-> data.n_ad,
                   n_psa |-> data.n_psa,
                   ad_conversions |-> data.ad_conversions,
                   psa_conversions |-> data.psa_conversions,
                   cr_ad |-> cr_ad,
                   cr_psa |-> cr_psa,
                   incremental_conversions |->
                       incremental_conversions(data.ad_conversions,
                                               data.n_ad, cr_psa),
                   incremental_conversion_rate |-> FSub(cr_ad, cr_psa)] @@ biz
    /\ zpc' = "revenue"
    /\ UNCHANGED <<data, bay, bpc, freq, fpc, files>>

(* lines 128-135: "if bayesian_results:" holds for a loaded dict with at
   least one item *)
BayesianAvailable(b) ==
    b.bayesian_results.loaded /\ b.bayesian_results.items # <<>>

\* lines 118-135
ZRevenue ==
    /\ zpc = "revenue"
    /\ LET rev  == FMul(biz.incremental_conversions,
                        FInt(biz.value_per_conversion))
           have == BayesianAvailable(biz)
           br   == biz.bayesian_results.items
       IN  biz' = [total_revenue_ad |->
                       biz.ad_conversions * biz.value_per_conversion,
                   total_revenue_psa |->
                       biz.psa_conversions * biz.value_per_conversion,
                   incremental_revenue |-> rev,
                   expected_incremental_revenue |->
                       IF have
                       THEN DictGet(br, "expected_incremental_revenue",
                                    NpFloat(rev))
                       ELSE NpFloat(rev),
                   revenue_ci_lower |->
                       IF have
                       THEN DictGet(br, "revenue_ci_lower",
                                    NpFloat(FMul(rev, <<8, 10>>)))
                       ELSE NpFloat(FMul(rev, <<8, 10>>)),
                   revenue_ci_upper |->
                       IF have
                       THEN DictGet(br, "revenue_ci_upper",
                                    NpFloat(FMul(rev, <<12, 10>>)))
                       ELSE NpFloat(FMul(rev, <<12, 10>>))] @@ biz
    /\ zpc' = "cost"
    /\ UNCHANGED <<data, bay, bpc, freq, fpc, files>>

\* x / y if guard else float('inf')
RatioOrInf(guard, x, y) ==
    IF guard THEN NpFloat(FDiv(x, y)) ELSE PyFloat(Inf)

\* line 158
cost_per_conversion_ad(cost, k_ad) ==
    RatioOrInf(k_ad > 0, cost, FInt(k_ad))

\* line 161
cost_per_incremental_acquisition(cost, incremental) ==
    RatioOrInf(FGt(incremental, Zero), cost, incremental)

\* lines 153-161
ZCost ==
    /\ zpc = "cost"
    /\ LET cost == FMul(FInt(biz.ad_group_total_ads),
                        biz.cost_per_ad_impression)
       IN  biz' = [total_ad_impressions |-> biz.ad_group_total_ads,
                   total_campaign_cost |-> cost,
                   cost_per_conversion_ad |->
                       cost_per_conversion_ad(cost, biz.ad_conversions),
                   cost_per_incremental_acquisition |->
                       cost_per_incremental_acquisition(
                           cost, biz.incremental_conversions)] @@ biz
    /\ zpc' = "roas"
    /\ UNCHANGED <<data, bay, bpc, freq, fpc, files>>

\* lines 179-184: revenue / cost if cost > 0 else float('inf')
PerCost(x, cost) == RatioOrInf(FGt(cost, Zero), x, cost)

\* lines 179-184
ZRoas ==
    /\ zpc = "roas"
    /\ LET cost == biz.total_campaign_cost
       IN  biz' = [roas_total |-> PerCost(FInt(biz.total_revenue_ad), cost),
                   roas_incremental |->
                       PerCost(biz.incremental_revenue, cost),
                   roi_total |->
                       PerCost(FSub(FInt(biz.total_revenue_ad), cost), cost),
                   roi_incremental |->
                       PerCost(FSub(biz.incremental_revenue, cost), cost)]
                  @@ biz
    /\ zpc' = "break_even"
    /\ UNCHANGED <<data, bay, bpc, freq, fpc, files>>

\* lines 216-217
ZBreakEven ==
    /\ zpc = "break_even"
    /\ LET be == RatioOrInf(biz.value_per_conversion > 0,
                            biz.total_campaign_cost,
                            FInt(biz.value_per_conversion))
       IN  biz' = [break_even_conversions |-> be,
                   break_even_conversion_rate |->
                       FDiv(be.val, FInt(biz.n_ad))] @@ biz
    /\ zpc' = "summary"
    /\ UNCHANGED <<data, bay, bpc, freq, fpc, files>>

\* line 317: a numpy bool when roas_incremental is a numpy float
is_profitable(roas) ==
    IF roas.type = "np.float64"
    THEN NpBool(FGt(roas.val, One))
    ELSE PyBool(FGt(roas.val, One))

\* lines 297-318
BizSummary(z) ==
    << Entry("ad_group_size", PyInt(z.n_ad)),
       Entry("psa_group_size", PyInt(z.n_psa)),
       Entry("ad_conversions", NpInt(z.ad_conversions)),
       Entry("psa_conversions", NpInt(z.psa_conversions)),
       Entry("ad_conversion_rate", NpFloat(z.cr_ad)),
       Entry("psa_conversion_rate", NpFloat(z.cr_psa)),
       Entry("incremental_conversions", NpFloat(z.incremental_conversions)),
       Entry("incremental_conversion_rate",
             NpFloat(z.incremental_conversion_rate)),
       Entry("value_per_conversion", PyInt(z.value_per_conversion)),
       Entry("total_campaign_cost", NpFloat(z.total_campaign_cost)),
       Entry("total_revenue_ad", NpInt(z.total_revenue_ad)),
       Entry("incremental_revenue", NpFloat(z.incremental_revenue)),
       Entry("expected_incremental_revenue", z.expected_incremental_revenue),
       Entry("cost_per_incremental_acquisition",
             z.cost_per_incremental_acquisition),
       Entry("roas_total", z.roas_total),
       Entry("roas_incremental", z.roas_incremental),
       Entry("roi_total", z.roi_total),
       Entry("roi_incremental", z.roi_incremental),
       Entry("break_even_conversions", z.break_even_conversions),
       Entry("is_profitable", is_profitable(z.roas_incremental)) >>

\* lines 297-337: build the summary and save it
ZSave ==
    /\ zpc = "summary"
    /\ LET summary == BizSummary(biz)
       IN  /\ biz' = [summary |-> summary] @@ biz
           /\ files' = [files EXCEPT !["business_impact_results.json"] =
                            JsonDump(summary)]
           /\ zpc' = IF DumpRaises(summary) THEN "TypeError" ELSE "done"
    /\ UNCHANGED <<data, bay, bpc, freq, fpc>>

BizNext ==
    \/ ZLoadFrequentist \/ ZLoadBayesian \/ ZConversion \/ ZRevenue
    \/ ZCost \/ ZRoas \/ ZBreakEven \/ ZSave

----------------------------------------------------------------------------
(* Initial states: a data set on disk, no result file yet, no script started *)

NotStarted == [script |-> "not started"]

NoScriptStarted ==
    /\ bay = NotStarted /\ bpc = "load"
    /\ freq = NotStarted /\ fpc = "load"
    /\ biz = NotStarted /\ zpc = "load"
    /\ files = [f \in Files |-> NoFile]

Init ==
    /\ data \in {d \in DataSets : CsvData(d)}
    /\ NoScriptStarted

\* the two analysis scripts do not read the 'total ads' column
InitAnalysis ==
    /\ data \in {d \in DataSets : CsvData(d) /\ d.total_ads = 0}
    /\ NoScriptStarted

Next == BayesNext \/ FreqNext \/ BizNext

\* the three scripts, started in any order and interleaved
Spec == Init /\ [][Next]_vars

\* the Bayesian script run on its own
SpecBayes == InitAnalysis /\ [][BayesNext]_vars

\* the frequentist script run on its own
SpecFreq == InitAnalysis /\ [][FreqNext]_vars

\* the business impact script run on its own
SpecBiz == Init /\ [][BizNext]_vars

\* data sets with two arms of two rows and one conversion in the ad group
PilotData ==
    {d \in DataSets :
        /\ CsvData(d)
        /\ d.n_ad = 2 /\ d.n_psa = 2
        /\ d.ad_conversions = 1 /\ d.total_ads = 0}

InitPilot ==
    /\ data \in PilotData
    /\ NoScriptStarted

\* the Bayesian script is started again on the same csv once it has ended
BRunAgain ==
    /\ bpc = "done"
    /\ bay' = NotStarted
    /\ bpc' = "load"
    /\ UNCHANGED <<data, freq, fpc, biz, zpc, files>>

\* a csv on which both analysis scripts reach their json.dump
InitAnalyzers ==
    /\ data \in {d \in PilotData : d.psa_conversions = 0}
    /\ NoScriptStarted

\* the two analysis scripts started on one csv, their steps interleaved
SpecAnalyzers == InitAnalyzers /\ [][BayesNext \/ FreqNext]_vars

\* the Bayesian and the business impact script started in any order
SpecImpact == InitPilot /\ [][BayesNext \/ BizNext]_vars

\* the Bayesian script run again and again on one csv
SpecRerun == InitPilot /\ [][BayesNext \/ BRunAgain]_vars

----------------------------------------------------------------------------
(* The interpretation of prob_ad_better (lines 193-207) on its own: the
   script at the interpretation with prob_ad_better = k/n, the mean of n
   comparisons of which k are true *)

\* largest number of posterior samples compared
MaxCompared == 20

InitInterpret ==
    /\ \E n \in 1..MaxCompared : \E k \in 0..n :
         bay = [prob_ad_better |-> Norm(k, n)]
    /\ bpc = "interpret"
    /\ data = [n_ad |-> 1, n_psa |-> 1, ad_conversions |-> 0,
               psa_conversions |-> 0, total_ads |-> 0]
    /\ freq = NotStarted /\ fpc = "load"
    /\ biz = NotStarted /\ zpc = "load"
    /\ files = [f \in Files |-> NoFile]

SpecInterpret == InitInterpret /\ [][BInterpret]_vars

(* The interpretation of Cohen's h (lines 168-180) on its own: the script at
   line 180 with cohens_h_value any hundredth in [-pi, pi], or nan *)
HValues == {Norm(i, 100) : i \in -314..314} \cup {NaN}

InitEffect ==
    /\ \E h \in HValues : freq = [cohens_h_value |-> h]
    /\ fpc = "effect_interp"
    /\ data = [n_ad |-> 1, n_psa |-> 1, ad_conversions |-> 0,
               psa_conversions |-> 0, total_ads |-> 0]
    /\ bay = NotStarted /\ bpc = "load"
    /\ biz = NotStarted /\ zpc = "load"
    /\ files = [f \in Files |-> NoFile]

SpecEffect == InitEffect /\ [][FEffectInterpret]_vars

\* largest number of posterior samples per arm at the superiority step
MaxDraws == 5

(* the superiority step of the Bayesian script (lines 177-190) on every pair
   of sample sets of the same length *)
InitSuperiority ==
    /\ data = [n_ad |-> 1, n_psa |-> 1, ad_conversions |-> 0,
               psa_conversions |-> 0, total_ads |-> 0]
    /\ \E n \in 1..MaxDraws :
         \E sa \in [1..n -> BetaDraws], sp \in [1..n -> BetaDraws] :
           bay = [n_samples |-> n,
                  posterior_ad_samples |-> sa,
                  posterior_psa_samples |-> sp]
    /\ bpc = "superiority"
    /\ freq = NotStarted /\ fpc = "load"
    /\ biz = NotStarted /\ zpc = "load"
    /\ files = [f \in Files |-> NoFile]

SpecSuperiority == InitSuperiority /\ [][BSuperiority]_vars

\* largest number of posterior samples per arm in the comparison of lifts
MaxLiftDraws == 3

(* draws in (0, 1) that lie close together: relative to 1/3 the lift of
   101/300 is exactly 1%, that of 17/50 is 2% *)
CloseDraws == {<<1, 3>>, <<101, 300>>, <<17, 50>>}

(* the superiority step (lines 177-190) on pairs of sample sets whose
   relative lifts lie on both sides of min_lift *)
InitLift ==
    /\ data = [n_ad |-> 1, n_psa |-> 1, ad_conversions |-> 0,
               psa_conversions |-> 0, total_ads |-> 0]
    /\ \E n \in 1..MaxLiftDraws :
         \E sa \in [1..n -> CloseDraws], sp \in [1..n -> CloseDraws] :
           bay = [n_samples |-> n,
                  posterior_ad_samples |-> sa,
                  posterior_psa_samples |-> sp]
    /\ bpc = "superiority"
    /\ freq = NotStarted /\ fpc = "load"
    /\ biz = NotStarted /\ zpc = "load"
    /\ files = [f \in Files |-> NoFile]

SpecLift == InitLift /\ [][BSuperiority]_vars

----------------------------------------------------------------------------
(* Properties *)

PosteriorComputed == "alpha_post_ad" \in DOMAIN bay

ValidInput == data.n_ad >= 1 /\ data.n_psa >= 1

(* C1: for every arm with 0 <= successes <= trials, the posterior shape
   parameters are alpha' = priorAlpha + successes and
   beta' = priorBeta + (trials - successes), so that
   alpha' + beta' = priorAlpha + priorBeta + trials.  (SpecBayes) *)
C1_PosteriorUpdate ==
    PosteriorComputed =>
      /\ bay.alpha_post_ad = bay.alpha_prior_ad + data.ad_conversions
      /\ bay.beta_post_ad
           = bay.beta_prior_ad + (data.n_ad - data.ad_conversions)
      /\ bay.alpha_post_ad + bay.beta_post_ad
           = bay.alpha_prior_ad + bay.beta_prior_ad + data.n_ad
      /\ bay.alpha_post_psa = bay.alpha_prior_psa + data.psa_conversions
      /\ bay.beta_post_psa
           = bay.beta_prior_psa + (data.n_psa - data.psa_conversions)
      /\ bay.alpha_post_psa + bay.beta_post_psa
           = bay.alpha_prior_psa + bay.beta_prior_psa + data.n_psa

\* an arm with successes and failures, the other with successes only
C1_Witness ==
    /\ PosteriorComputed
    /\ 0 < data.ad_conversions /\ data.ad_conversions < data.n_ad
    /\ 0 < data.psa_conversions /\ data.psa_conversions = data.n_psa

(* C2: for every valid input (each arm has trials >= 1 and
   0 <= successes <= trials) the four posterior shape parameters are
   strictly positive, also when successes = 0 or successes = trials.
   (SpecBayes) *)
C2_PosteriorPositive ==
    (PosteriorComputed /\ ValidInput) =>
      /\ bay.alpha_post_ad > 0 /\ bay.beta_post_ad > 0
      /\ bay.alpha_post_psa > 0 /\ bay.beta_post_psa > 0

\* one arm without a success, the other without a failure
C2_Witness ==
    /\ PosteriorComputed /\ ValidInput
    /\ data.ad_conversions = 0
    /\ data.psa_conversions = data.n_psa

SuperiorityComputed == "prob_equal" \in DOMAIN bay

\* the number of indices at which the two sample sets hold the same value
EqualDraws(b) ==
    Cardinality({i \in 1..b.n_samples :
                    b.posterior_ad_samples[i] = b.posterior_psa_samples[i]})

(* C3: for every pair of sample sets of the same length, P(ad > psa),
   P(psa > ad) and P(equal) each lie in [0, 1] and sum to 1, and P(equal) is
   the fraction of indices at which the two samples are equal.
   (SpecSuperiority) *)
C3_SuperiorityProbabilities ==
    SuperiorityComputed =>
      LET pa == float64(bay.prob_ad_better)
          pp == float64(bay.prob_psa_better)
          pe == bay.prob_equal
      IN  /\ \A q \in {pa, pp, pe} : F64Le(F64Zero, q) /\ F64Le(q, F64One)
          /\ F64Add(F64Add(pa, pp), pe) = F64One
          /\ pe = F64Quotient(EqualDraws(bay), bay.n_samples)

\* five draws, ad above psa at four and below at one: 1 - 0.8 - 0.2 < 0
C3_Witness ==
    /\ SuperiorityComputed
    /\ bay.n_samples = 5
    /\ bay.prob_ad_better = <<4, 5>>
    /\ bay.prob_psa_better = <<1, 5>>
    /\ EqualDraws(bay) = 0
    /\ bay.prob_equal = F64(TRUE, <<0, 0, 64>>)

Interpreted == "interpretation" \in DOMAIN bay

\* the interpretation for prob_ad_better = k/n with thresholds in hundredths
\* that are exceeded (strict) or reached (not strict)
BucketOf(p, strict) ==
    LET above(t) == IF strict THEN 100 * p[1] > t * p[2]
                    ELSE 100 * p[1] >= t * p[2]
    IN  IF above(95) THEN "Very Strong Evidence"
        ELSE IF above(90) THEN "Strong Evidence"
        ELSE IF above(75) THEN "Moderate Evidence"
        ELSE IF above(50) THEN "Weak Evidence"
        ELSE "No Evidence"

(* C4, as stated: a P(ad > psa) >= 0.95 is "very strong", otherwise >= 0.90
   "strong", otherwise >= 0.75 "moderate", otherwise >= 0.50 "weak",
   otherwise "none"; a probability equal to a threshold falls in the bucket
   that threshold names.  (SpecInterpret) *)
C4_ThresholdsInclusive ==
    Interpreted => bay.interpretation = BucketOf(bay.prob_ad_better, FALSE)

(* C4, amended: a P(ad > psa) > 0.95 is "very strong", otherwise > 0.90
   "strong", otherwise > 0.75 "moderate", otherwise > 0.50 "weak", otherwise
   "none"; a probability equal to a threshold falls in the bucket below the
   one that threshold names.  (SpecInterpret) *)
C4_ThresholdsExclusive ==
    Interpreted => bay.interpretation = BucketOf(bay.prob_ad_better, TRUE)

\* 19 of 20 comparisons true: exactly 0.95, interpreted as strong evidence
C4_Witness ==
    /\ Interpreted
    /\ bay.prob_ad_better = <<19, 20>>
    /\ bay.interpretation = "Strong Evidence"

EffectInterpreted == "effect_interpretation" \in DOMAIN freq

EffectCategories == {"Negligible", "Small", "Medium", "Large"}

(* C5: the effect size category depends on |h| only: |h| < 0.2 is
   negligible, 0.2 <= |h| < 0.5 small, 0.5 <= |h| < 0.8 medium and
   |h| >= 0.8 large; h and -h get the same category, and every h gets one
   category (a nan h, which is below no threshold, gets large).
   (SpecEffect) *)
C5_EffectCategory ==
    EffectInterpreted =>
      LET h == freq.cohens_h_value
          a == Abs(h[1])
          c == freq.effect_interpretation
      IN  /\ c \in EffectCategories
          /\ interpret_effect_size_h(FNeg(h)) = c
          /\ IsNaN(h) => c = "Large"
          /\ ~IsNaN(h) =>
                /\ (10 * a < 2 * h[2]) <=> (c = "Negligible")
                /\ (2 * h[2] <= 10 * a /\ 10 * a < 5 * h[2]) <=> (c = "Small")
                /\ (5 * h[2] <= 10 * a /\ 10 * a < 8 * h[2]) <=> (c = "Medium")
                /\ (8 * h[2] <= 10 * a) <=> (c = "Large")

\* h = -0.5, on a threshold and negative
C5_Witness ==
    /\ EffectInterpreted
    /\ freq.cohens_h_value = <<-1, 2>>
    /\ freq.effect_interpretation = "Medium"

EffectComputed == "cohens_d" \in DOMAIN freq

\* the sign of treatmentRate - controlRate
RateDiffSign == Sign(data.ad_conversions * data.n_psa
                     - data.psa_conversions * data.n_ad)

(* C6, as stated: for every pair of non-empty arms Cohen's d and Cohen's h
   both have the sign of (treatmentRate - controlRate), also for arms of
   zero variance whose rates differ.  (SpecFreq) *)
C6_EffectSigns ==
    (EffectComputed /\ ValidInput) =>
      /\ FSign(freq.cohens_h_value) = RateDiffSign
      /\ FSign(freq.cohens_d.rad) = RateDiffSign

(* C6, amended: for every pair of non-empty arms Cohen's h has the sign of
   (treatmentRate - controlRate), and Cohen's d has that sign whenever the
   pooled standard deviation is a number greater than 0; when it is 0 or
   nan (an arm of a single row, or both arms without variance) Cohen's d is
   0 whatever the rates are.  (SpecFreq) *)
C6_EffectSignsAmended ==
    (EffectComputed /\ ValidInput) =>
      /\ FSign(freq.cohens_h_value) = RateDiffSign
      /\ FGt(freq.pooled_std_sq, Zero)
           => FSign(freq.cohens_d.rad) = RateDiffSign
      /\ ~FGt(freq.pooled_std_sq, Zero) => FSign(freq.cohens_d.rad) = 0

\* all ad rows converted, no psa row converted: no variance, rates differ
C6_Witness ==
    /\ EffectComputed
    /\ data.n_ad >= 2 /\ data.n_psa >= 2
    /\ data.ad_conversions = data.n_ad /\ data.psa_conversions = 0
    /\ freq.pooled_std_sq = Zero
    /\ freq.cohens_d = PyInt(0)
    /\ FSign(freq.cohens_h_value) = 1

(* C7: the effect size step never fails: with a pooled standard deviation of
   0 it sets cohens_d to 0 and the script goes on to the interpretation of
   the effect size, and with a pooled standard deviation > 0 it sets
   cohens_d to (rate_ad - rate_psa) / pooled_std.  (SpecFreq) *)
C7_PooledStdZero ==
    [][fpc = "effect" =>
         /\ fpc' = "effect_interp"
         /\ LET pooled == freq'.pooled_std_sq
                diff   == FSub(freq'.cr_ad, freq'.cr_psa)
                d      == freq'.cohens_d
            IN  /\ pooled = Zero => (d.val = Zero /\ d.rad = Zero)
                /\ FGt(pooled, Zero) =>
                     /\ d.val = Zero
                     /\ FMul(d.rad, pooled) = FMul(diff, FAbs(diff))]_vars

\* both arms without variance and different rates, past the effect size step
C7_Witness ==
    /\ fpc = "bootstrap"
    /\ freq.pooled_std_sq = Zero
    /\ freq.cr_ad # freq.cr_psa
    /\ freq.cohens_d = PyInt(0)

SummaryBuilt == "summary" \in DOMAIN freq

SummaryFlag(summary, key) == DictGet(summary, key, PyInt(-1)).val = One

(* C8: the is_significant flag of the summary is true exactly when
   p_value < alpha, and agrees with the verdict of the t-test
   interpretation.  (SpecFreq) *)
C8_SignificanceFlag ==
    SummaryBuilt =>
      /\ SummaryFlag(freq.summary, "is_significant")
           <=> FLt(freq.p_value, freq.alpha)
      /\ SummaryFlag(freq.summary, "is_significant")
           <=> (freq.significance = "Statistically Significant")

\* a p-value equal to alpha: not significant
C8_Witness ==
    /\ SummaryBuilt
    /\ freq.p_value = freq.alpha
    /\ ~SummaryFlag(freq.summary, "is_significant")
    /\ freq.significance = "Not Statistically Significant"

(* C9: if either arm has no trial the analysis aborts at its entry: no
   posterior sample and no predictive draw is made and no result is
   written.  (SpecBayes) *)
C9_ZeroTrialsAbort ==
    (data.n_ad = 0 \/ data.n_psa = 0) =>
      /\ "posterior_ad_samples" \notin DOMAIN bay
      /\ "posterior_predictive_samples" \in DOMAIN bay
           => bay.posterior_predictive_samples = <<>>
      /\ ~files["bayesian_results.json"].present

\* an ad group without rows: the script has sampled and written its results
C9_Witness ==
    /\ data.n_ad = 0 /\ data.n_psa > 0
    /\ bpc = "done"
    /\ IsNaN(bay.cr_ad)
    /\ Len(bay.posterior_ad_samples) = NSamples
    /\ Len(bay.posterior_predictive_samples) = PredictiveReps
    /\ files["bayesian_results.json"].complete

(* C10: every number written to a results file is finite, for every input
   with two non-empty arms (zero conversions, zero incremental conversions,
   a zero control rate and a zero campaign cost included).  (SpecBiz) *)
C10_FiniteValuesWritten ==
    ValidInput =>
      \A f \in Files : \A i \in DOMAIN files[f].content :
        ValueFinite(files[f].content[i].value)

\* no incremental conversion: Infinity in business_impact_results.json
C10_Witness ==
    /\ ValidInput
    /\ data.ad_conversions = 0 /\ data.psa_conversions = 0
    /\ data.total_ads > 0
    /\ LET file == files["business_impact_results.json"]
       IN  /\ file.present
           /\ \E i \in DOMAIN file.content :
                 /\ file.content[i].key = "cost_per_incremental_acquisition"
                 /\ file.content[i].value = PyFloat(Inf)

\* the keys of a dict, in its order
Keys(d) == [i \in DOMAIN d |-> d[i].key]

IntTypes == {"int", "np.int64"}

BoolTypes == {"bool", "np.bool_"}

(* the file can be read back and gives the keys of the summary, its integers
   as the same integers and its booleans as the same booleans *)
ReadsBackExact(summary, file) ==
    /\ file.present /\ ~JsonLoadRaises(file)
    /\ LET back == JsonLoad(file)
       IN  /\ Keys(back) = Keys(summary)
           /\ \A i \in DOMAIN summary :
                 LET v == summary[i].value
                     w == back[i].value
                 IN  /\ v.type \in IntTypes => (w.type = "int" /\ w.val = v.val)
                     /\ v.type \in BoolTypes =>
                           (w.type = "bool" /\ w.val = v.val)

(* C11: a result record that has been serialized is read back with every
   field: the integer fields as the same integers, the boolean fields as the
   same booleans, and the same set of keys.  (SpecFreq) *)
C11_RoundTrip ==
    (SummaryBuilt /\ fpc \in {"TypeError", "done"}) =>
      ReadsBackExact(freq.summary, files["frequentist_results.json"])

\* two arms with different rates: the dump has stopped at is_significant
C11_Witness ==
    /\ ValidInput /\ SummaryBuilt
    /\ fpc = "TypeError"
    /\ Len(files["frequentist_results.json"].content)
         = Len(freq.summary) - 1
    /\ JsonLoadRaises(files["frequentist_results.json"])

\* the contract names that ab_test_bayesian.py produces
BayesianContract ==
    {"ad_conversion_rate", "psa_conversion_rate", "posterior_mean_ad",
     "posterior_mean_psa", "prob_ad_better", "prob_meaningful_lift",
     "credible_interval_lower", "credible_interval_upper",
     "expected_incremental_conversions", "expected_incremental_revenue",
     "revenue_ci_lower", "revenue_ci_upper"}

\* the contract names that ab_test_frequentist.py produces
FrequentistContract ==
    {"ad_conversion_rate", "psa_conversion_rate", "t_statistic", "p_value",
     "chi2_statistic", "chi2_p_value", "cohens_d", "cohens_h", "ci_95_lower",
     "ci_95_upper", "bootstrap_ci_lower", "bootstrap_ci_upper",
     "statistical_power", "required_sample_size", "is_significant"}

\* the keys ab_test_business_impact.py reads from bayesian_results.json
BusinessReads ==
    {"expected_incremental_revenue", "revenue_ci_lower", "revenue_ci_upper"}

\* the names that a result file gives a value to
FileKeys(file) == {file.content[i].key : i \in DOMAIN file.content}

BayesEnded == bpc = "done"

FreqEnded == SummaryBuilt /\ fpc \in {"TypeError", "done"}

(* C12: once the analyzers have ended, every name of the output contract
   is in the results they produced, under that name, and every key the
   business impact script reads is one the Bayesian script wrote.
   (SpecFreq) *)
C12_ContractNames ==
    /\ FreqEnded =>
         FrequentistContract
           \subseteq FileKeys(files["frequentist_results.json"])
    /\ BayesEnded =>
         (BayesianContract \cup BusinessReads)
           \subseteq FileKeys(files["bayesian_results.json"])

\* the frequentist script has ended and its file has all names but one
C12_Witness ==
    /\ ValidInput /\ FreqEnded
    /\ FrequentistContract \ FileKeys(files["frequentist_results.json"])
         = {"is_significant"}
    /\ FrequentistContract
         \subseteq {freq.summary[i].key : i \in DOMAIN freq.summary}

\* a later run is about to save while the file of the run before is on disk
SecondRunAtSave == bpc = "summary" /\ files["bayesian_results.json"].present

(* C13: two runs on the same input and the same configuration draw the same
   samples and produce identical result values: what a later run is about
   to write is what the run before it wrote.  (SpecRerun) *)
C13_Reproducible ==
    SecondRunAtSave =>
      JsonDump(BayesSummary(bay)) = files["bayesian_results.json"]

\* the second run has another P(ad > psa) than the first
C13_Witness ==
    /\ SecondRunAtSave
    /\ DictGet(files["bayesian_results.json"].content, "prob_ad_better",
               PyInt(-1)).val # bay.prob_ad_better
    /\ DictGet(files["bayesian_results.json"].content, "ad_conversion_rate",
               PyInt(-1)).val = bay.cr_ad

PowerSolved == "solve_call" \in DOMAIN freq

(* C14: for every valid input the power analysis yields a required sample
   size, and it is a positive integer (the group size at which the power
   computed for the same effect size, ratio and alpha reaches the
   target).  (SpecFreq) *)
C14_RequiredSampleSize ==
    (ValidInput /\ PowerSolved) =>
      /\ "required_n" \in DOMAIN freq
      /\ FCeil(freq.required_n) >= 1

\* two arms of equal rate: the solve for the sample size has raised
C14_Witness ==
    /\ ValidInput /\ PowerSolved
    /\ data.n_ad > 1 /\ data.n_psa > 1
    /\ freq.cr_ad = freq.cr_psa
    /\ freq.pooled_std_sq # Zero
    /\ freq.solve_call.effect_size.rad = Zero
    /\ fpc = "ValueError"

(* C20: the solve for the required sample size is made with the effect
   size, the ratio nC/nT and the alpha of the achieved-power computation.
   (SpecFreq) *)
C20_SameArguments ==
    PowerSolved =>
      /\ freq.solve_call.effect_size = freq.power_call.effect_size
      /\ FEq(freq.solve_call.ratio, freq.power_call.ratio)
      /\ FEq(freq.solve_call.alpha, freq.power_call.alpha)

(* C20, as the code has it: the two calls are made with the same effect
   size, alpha and alternative; the achieved power is computed for the ratio
   n_psa / n_ad of the data, the required sample size for groups of equal
   size (ratio 1).  (SpecFreq) *)
C20_ArgumentsOfTheCalls ==
    PowerSolved =>
      /\ freq.solve_call.effect_size = freq.power_call.effect_size
      /\ freq.power_call.effect_size = freq.cohens_d
      /\ FEq(freq.solve_call.alpha, freq.power_call.alpha)
      /\ freq.solve_call.alternative = freq.power_call.alternative
      /\ FMul(freq.power_call.ratio, FInt(freq.n_ad)) = FInt(freq.n_psa)
      /\ freq.power_call.nobs1 = freq.n_ad
      /\ freq.solve_call.ratio = One

\* arms of different size: both calls have returned, the ratios differ
C20_Witness ==
    /\ PowerSolved /\ fpc = "summary"
    /\ freq.n_psa > freq.n_ad
    /\ FGt(freq.power_call.ratio, freq.solve_call.ratio)
    /\ "required_n" \in DOMAIN freq

BizSummaryBuilt == "summary" \in DOMAIN biz

\* float('inf') stands in the record for a ratio whose denominator was zero
InfFallback(z) ==
    \/ ~FGt(z.incremental_conversions, Zero)
    \/ ~FGt(z.total_campaign_cost, Zero)

(* the entries of a record that can mark it: the booleans other than the
   verdict on profitability *)
FlagEntries(summary) ==
    {i \in DOMAIN summary :
        /\ summary[i].value.type \in BoolTypes
        /\ summary[i].key # "is_profitable"}

(* C15: whenever a degenerate condition was recovered with a fallback value,
   the result record carries a flag that marks the value as degenerate.
   (SpecBiz) *)
C15_FallbackFlagged ==
    (BizSummaryBuilt /\ InfFallback(biz)) =>
      \E i \in FlagEntries(biz.summary) : biz.summary[i].value.val = One

\* no campaign cost: the ratios per cost are inf, written without a flag
C15_Witness ==
    /\ ValidInput /\ BizSummaryBuilt /\ zpc = "done"
    /\ biz.total_campaign_cost = Zero
    /\ biz.roas_incremental = PyFloat(Inf)
    /\ FlagEntries(biz.summary) = {}
    /\ files["business_impact_results.json"].complete

\* what the Bayesian script holds and writes, and what the frequentist one
BayesianFragment == <<bay, bpc, files["bayesian_results.json"]>>

FrequentistFragment == <<freq, fpc, files["frequentist_results.json"]>>

(* C16: the two analyzers share no mutable state.  With their steps
   interleaved in any order, a step of one leaves untouched what the other
   holds and has written, the input data is never modified, and the file of
   each is what that script alone writes from its own summary.
   (SpecAnalyzers) *)
C16_NoSharedState ==
    /\ [][/\ (BayesianFragment' # BayesianFragment
               => FrequentistFragment' = FrequentistFragment)
           /\ (FrequentistFragment' # FrequentistFragment
               => BayesianFragment' = BayesianFragment)
           /\ data' = data]_vars
    /\ [](/\ (files["bayesian_results.json"].present
               => /\ "summary" \in DOMAIN bay
                  /\ bay.summary = BayesSummary(bay)
                  /\ files["bayesian_results.json"] = JsonDump(bay.summary))
          /\ (files["frequentist_results.json"].present
               => /\ SummaryBuilt
                  /\ freq.summary = FreqSummary(freq)
                  /\ files["frequentist_results.json"]
                       = JsonDump(freq.summary)))

\* both scripts have ended and each has written its own file
C16_Witness ==
    /\ bpc = "done" /\ fpc = "TypeError"
    /\ files["bayesian_results.json"].present
    /\ files["frequentist_results.json"].present
    /\ Keys(files["bayesian_results.json"].content) = Keys(bay.summary)
    /\ FileKeys(files["frequentist_results.json"])
         \subseteq {freq.summary[i].key : i \in DOMAIN freq.summary}

RevenueComputed == "revenue_ci_lower" \in DOMAIN biz

\* the value of a key in a dict that has it
ItemOf(d, key) == DictGet(d, key, PyInt(-1)).val

(* C17: the business impact step reads the analyzer fields only after the
   analyzer has produced them: in every order of execution the
   expected_incremental_revenue, revenue_ci_lower and revenue_ci_upper it
   uses are the values the Bayesian script computed, never a substitute.
   (SpecImpact) *)
C17_ReadsAfterProduced ==
    RevenueComputed =>
      /\ BayesianAvailable(biz)
      /\ \A key \in BusinessReads :
           /\ key \in {biz.bayesian_results.items[i].key :
                          i \in DOMAIN biz.bayesian_results.items}
           /\ biz[key].val = ItemOf(biz.bayesian_results.items, key)

(* both scripts have ended; the business script had found no Bayesian file
   and its interval is not the one the Bayesian script computed *)
C17_Witness ==
    /\ zpc = "done" /\ bpc = "done"
    /\ ~biz.bayesian_results.loaded
    /\ files["bayesian_results.json"].complete
    /\ biz.revenue_ci_lower = NpFloat(FMul(biz.incremental_revenue, <<8, 10>>))
    /\ biz.revenue_ci_lower.val
         # ItemOf(files["bayesian_results.json"].content, "revenue_ci_lower")

\* the script has ended with an exception
BayesFailed == bpc \in {"ZeroDivisionError", "TypeError"}

(* C18: on valid input the resampling steps never fail because of the
   values drawn, a predictive replicate whose future control conversion
   count is 0 included: every replicate completes, and the analysis goes on
   to write its results.  (SpecBayes) *)
C18_DrawsNeverFail ==
    ValidInput =>
      /\ ~BayesFailed
      /\ (bpc = "summary" =>
            Len(bay.posterior_predictive_samples) = PredictiveReps)

\* a replicate has drawn 0 future psa conversions after one that completed
C18_Witness ==
    /\ ValidInput
    /\ bpc = "ZeroDivisionError"
    /\ Len(bay.posterior_predictive_samples) = 1
    /\ ~files["bayesian_results.json"].present

\* the chi-square step has been made on a table of two rows and two columns
Chi2OnTwoByTwo ==
    /\ "chi2" \in DOMAIN freq
    /\ TableRows(freq.contingency_table) = 2
    /\ TableCols(freq.contingency_table) = 2

\* a d - b c of the table (a b / c d), the determinant
TableDet == freq.k_ad * (freq.n_psa - freq.k_psa)
              - (freq.n_ad - freq.k_ad) * freq.k_psa

\* the product of the two row totals and the two column totals
TableMargins ==
    freq.n_ad * freq.n_psa * (freq.k_ad + freq.k_psa)
      * ((freq.n_ad - freq.k_ad) + (freq.n_psa - freq.k_psa))

(* C19: on a 2x2 table of two non-empty arms the reported statistic is
   Pearson's sum of (observed - expected)^2 / expected, that is
   N (ad - bc)^2 / (product of the margins), without any adjustment, and
   the degrees of freedom are 1.  (SpecFreq) *)
C19_PlainPearson ==
    Chi2OnTwoByTwo =>
      /\ freq.dof = 1
      /\ freq.chi2 = Norm((freq.n_ad + freq.n_psa) * TableDet * TableDet,
                          TableMargins)

(* C19, as the code has it: on a 2x2 table the reported statistic carries
   Yates' continuity correction, N (max(0, |ad - bc| - N/2))^2 / (product of
   the margins), and the degrees of freedom are 1.  (SpecFreq) *)
C19_YatesCorrected ==
    Chi2OnTwoByTwo =>
      LET N    == freq.n_ad + freq.n_psa
          twice == 2 * Abs(TableDet) - N
          gap2 == IF twice > 0 THEN twice ELSE 0
      IN  /\ freq.dof = 1
          /\ freq.chi2 = Norm(N * gap2 * gap2, 4 * TableMargins)

\* a table whose corrected statistic is positive and below Pearson's
C19_Witness ==
    /\ Chi2OnTwoByTwo /\ ValidInput
    /\ FGt(freq.chi2, Zero)
    /\ FLt(freq.chi2, Norm((freq.n_ad + freq.n_psa) * TableDet * TableDet,
                           TableMargins))

\* the script is no longer in its predictive loop, which it had entered
PredictiveLoopLeft ==
    /\ "posterior_predictive_samples" \in DOMAIN bay
    /\ bpc # "predictive"

\* the script is no longer in the loop of bootstrap_ci, which it had entered
BootstrapLoopLeft ==
    /\ "differences" \in DOMAIN freq
    /\ fpc # "bootstrap"

(* C21: every loop does bounded work and ends with its full record: the
   bootstrap loop with exactly n_bootstrap differences, the predictive loop
   with exactly as many (ad_rate, psa_rate, lift) entries as it has
   replicates; while a loop runs it has recorded no more than that.
   (SpecBayes) *)
C21_LoopsComplete ==
    /\ "posterior_predictive_samples" \in DOMAIN bay
         => Len(bay.posterior_predictive_samples) <= PredictiveReps
    /\ PredictiveLoopLeft
         => Len(bay.posterior_predictive_samples) = PredictiveReps
    /\ "differences" \in DOMAIN freq
         => Len(freq.differences) <= BootstrapReps
    /\ BootstrapLoopLeft => Len(freq.differences) = BootstrapReps

\* the first replicate has drawn 0 future psa conversions: no entry at all
C21_Witness ==
    /\ ValidInput
    /\ PredictiveLoopLeft
    /\ bpc = "ZeroDivisionError"
    /\ bay.posterior_predictive_samples = <<>>

\* the Welch interval diff -/+ sqrt(h) is ordered and has diff in its middle
WelchOrderedAndCentred(f) ==
    /\ f.ci_95_lower.val = FSub(f.cr_ad, f.cr_psa)
    /\ f.ci_95_upper.val = FSub(f.cr_ad, f.cr_psa)
    /\ f.ci_95_lower.rad = FNeg(f.ci_95_upper.rad)
    /\ FGe(f.ci_95_upper.rad, Zero)

(* C22: on every input with two non-empty arms and for every sample set,
   each interval computed has lower <= upper: the credible intervals of the
   two arms and of the difference, the revenue interval, the Welch 95%
   interval and the bootstrap interval; the Welch interval is centred on
   the observed difference of the rates.  (SpecFreq) *)
C22_IntervalsOrdered ==
    ValidInput =>
      /\ "diff_ci_lower" \in DOMAIN bay =>
           /\ FLe(bay.ad_ci_lower, bay.ad_ci_upper)
           /\ FLe(bay.psa_ci_lower, bay.psa_ci_upper)
           /\ FLe(bay.diff_ci_lower, bay.diff_ci_upper)
      /\ "revenue_ci_lower" \in DOMAIN bay =>
           FLe(bay.revenue_ci_lower, bay.revenue_ci_upper)
      /\ "ci_95_lower" \in DOMAIN freq => WelchOrderedAndCentred(freq)
      /\ "bootstrap_lower" \in DOMAIN freq =>
           FLe(freq.bootstrap_lower, freq.bootstrap_upper)

\* two arms of two rows and no conversion: the Welch interval is (nan, nan)
C22_Witness ==
    /\ data.n_ad >= 2 /\ data.n_psa >= 2
    /\ "ci_95_lower" \in DOMAIN freq
    /\ freq.se_diff_sq = Zero
    /\ IsNaN(freq.df_welch)
    /\ IsNaN(freq.ci_95_lower.rad) /\ IsNaN(freq.ci_95_upper.rad)

\* the relative lift of the i-th pair of samples
RelativeLift(b, i) ==
    FDiv(FSub(b.posterior_ad_samples[i], b.posterior_psa_samples[i]),
         b.posterior_psa_samples[i])

(* C23: for sample sets with strictly positive control samples and a
   min_lift >= 0, prob_meaningful_lift <= prob_ad_better: it is the fraction
   of the indices whose relative lift is above min_lift, and each of those
   indices is one where the ad sample is above the psa sample.
   (SpecLift) *)
C23_MeaningfulLiftBelowBetter ==
    SuperiorityComputed =>
      LET counted == {i \in 1..bay.n_samples :
                        FGt(RelativeLift(bay, i), bay.min_lift)}
          better  == {i \in 1..bay.n_samples :
                        FGt(bay.posterior_ad_samples[i],
                            bay.posterior_psa_samples[i])}
      IN  /\ FGe(bay.min_lift, Zero)
          /\ \A i \in 1..bay.n_samples :
                FGt(bay.posterior_psa_samples[i], Zero)
          /\ counted \subseteq better
          /\ bay.prob_meaningful_lift
               = Norm(Cardinality(counted), bay.n_samples)
          /\ bay.prob_ad_better = Norm(Cardinality(better), bay.n_samples)
          /\ FLe(bay.prob_meaningful_lift, bay.prob_ad_better)

(* one pair with a lift of exactly 1%, counted as better only, next to
   one with a lift of 2% and one with a negative lift *)
C23_Witness ==
    /\ SuperiorityComputed
    /\ bay.n_samples = 3
    /\ bay.prob_meaningful_lift = <<1, 3>>
    /\ bay.prob_ad_better = <<2, 3>>
    /\ \E i \in 1..bay.n_samples : RelativeLift(bay, i) = bay.min_lift
    /\ \E i \in 1..bay.n_samples : FLt(RelativeLift(bay, i), Zero)

RevenueIntervalComputed == "revenue_ci_lower" \in DOMAIN bay

\* x * n_ad * value_per_conversion, the factor of line 235
Rescaled(x, b) == FMul(FMul(x, FInt(b.n_ad)), FInt(b.value_per_conversion))

\* credible levels, the one of the script among them
CredibleLevels == {<<9, 10>>, <<19, 20>>, <<99, 100>>}

(* C24: the revenue interval is the credible interval of the difference
   rescaled, for every credible level: revenue_ci_lower is the lower bound
   that the difference samples give at that level, times n_ad times
   value_per_conversion, and revenue_ci_upper the upper bound times the
   same.  (SpecBayes) *)
C24_RescaledAtEveryLevel ==
    RevenueIntervalComputed =>
      \A level \in CredibleLevels :
        /\ bay.revenue_ci_lower
             = Rescaled(Percentile(bay.posterior_diff_samples,
                                   ci_lower_q(level)), bay)
        /\ bay.revenue_ci_upper
             = Rescaled(Percentile(bay.posterior_diff_samples,
                                   ci_upper_q(level)), bay)

(* C24, as the code has it: the revenue interval is taken at the percentiles
   2.5 and 97.5 of the revenue samples, whatever the credible level; these
   are the percentiles of the credible level 0.95 that the script sets, and
   for that level the revenue interval is the credible interval of the
   difference times n_ad times value_per_conversion.  (SpecBayes) *)
C24_RescaledAtLevel95 ==
    RevenueIntervalComputed =>
      /\ bay.revenue_ci_lower = Percentile(bay.revenue_samples, <<5, 2>>)
      /\ bay.revenue_ci_upper = Percentile(bay.revenue_samples, <<195, 2>>)
      /\ bay.revenue_samples
           = [i \in 1..bay.n_samples |->
                 Rescaled(bay.posterior_diff_samples[i], bay)]
      /\ FEq(bay.ci_level, <<95, 100>>)
      /\ bay.revenue_ci_lower = Rescaled(bay.diff_ci_lower, bay)
      /\ bay.revenue_ci_upper = Rescaled(bay.diff_ci_upper, bay)

(* differences that vary and a positive factor: the interval has a width,
   and its lower bound is not the rescaled bound of the 90% level *)
C24_Witness ==
    /\ RevenueIntervalComputed
    /\ bay.n_ad >= 1
    /\ FLt(bay.revenue_ci_lower, bay.revenue_ci_upper)
    /\ bay.revenue_ci_lower = Rescaled(bay.diff_ci_lower, bay)
    /\ bay.revenue_ci_lower
         # Rescaled(Percentile(bay.posterior_diff_samples,
                              ci_lower_q(<<9, 10>>)), bay)

============================================================================
